---- MODULE Spec2Model ----
(***************************************************************************)
(* Fan-out/fan-in aggregation handlers of concurrent-api-gateway.          *)
(*                                                                         *)
(*   AggregateHandler             WaitGroup + mutex          ("wg")        *)
(*   AggregateChannelHandler      buffered channel, counted receive loop   *)
(*                                ("channel_loopvar": the copy that keys   *)
(*                                results by the loop variable,            *)
(*                                "channel": the copy that keys results by *)
(*                                res.service)                             *)
(*   AggregateHandlerWithTimeout  context + WaitGroup + channels           *)
(*                                ("timeout_plain": the inner goroutine    *)
(*                                sends unconditionally, "timeout": the    *)
(*                                inner goroutine selects on ctx.Done)     *)
(*                                                                         *)
(* One behaviour is one request served by one handler.  Every goroutine of *)
(* the request is a process with its own program counter; a step of the    *)
(* model is one channel, lock, WaitGroup or context operation.  A worker   *)
(* that reaches its select when no case can proceed blocks ("parked") and  *)
(* leaves the select through the case of the event that wakes it up; a     *)
(* worker that reaches its select when both cases can proceed takes either.*)
(***************************************************************************)
EXTENDS Naturals, Sequences, FiniteSets

\* Largest registry explored.  The handlers hard-code three services; every
\* property below is stated for a registry of any size up to the bound.
MaxServices == 2

\* Service names in the order the handlers list them; "inventory" is the
\* fourth mock service the downstream mock server already exposes.
ServiceOrder == <<"user", "orders", "notifications", "inventory">>

Registries == {{ServiceOrder[i] : i \in 1..k} : k \in 0..MaxServices}

AllServices == {ServiceOrder[i] : i \in 1..MaxServices}

Handlers == {"wg", "channel_loopvar", "channel", "timeout_plain", "timeout"}

TimeoutHandlers == {"timeout_plain", "timeout"}

ChannelHandlers == {"channel_loopvar", "channel"}

\* c.Query("user_id"): the value sent by the client, "" when the parameter
\* is absent or empty.
Queries == {"", "42"}

\* Faulty variant: the default is missing.
UserIDNoDefault(q) == q

\* if userID == "" { userID = "123" }
UserID(q) == IF q = "" THEN "123" ELSE q

\* nil for the data and err fields of a result.
Nil == << >>

\* The zero value of the result struct.
NoResult == [service |-> "", data |-> Nil, err |-> Nil]

\* The body of a 2xx response decoded into the result; it identifies its
\* producer.
Payload(s) == <<"payload", s>>

\* What a downstream call comes to, retries included: a response with a 2xx
\* status, a response with another status, or no response at all.
Responses == {"2xx", "non2xx", "failed"}

\* SetResult(map[string]interface{}{}): the map the client would decode a
\* 2xx body into, as it is when nothing was decoded.
EmptyResult(s) == <<"empty result", s>>

\* err of resp, err := client.R()...Get(url): non-nil when the request got no
\* response; a response comes with a nil error whatever its status.
GetErr(d) == IF d = "failed" THEN <<"downstream failure">> ELSE Nil

\* resp.Result(): the decoded body of a 2xx response, otherwise the map as it
\* was set.
Result(s, d) == IF d = "2xx" THEN Payload(s) ELSE EmptyResult(s)

\* A fetcher, as its caller stores it in a result: if err != nil it returns
\* (nil, err), otherwise (resp.Result(), nil); the status is not looked at.
FetchReturn(s, d) ==
    IF GetErr(d) # Nil
    THEN [service |-> s, data |-> Nil, err |-> GetErr(d)]
    ELSE [service |-> s, data |-> Result(s, d), err |-> Nil]

\* ctx.Err(): nil while the context is armed, then DeadlineExceeded or
\* Canceled.
CtxErr(c) ==
    CASE c = "armed" -> Nil
      [] c = "deadline" -> <<"context deadline exceeded">>
      [] c = "canceled" -> <<"context canceled">>

\* Faulty variant: the reason is the context's error alone.
TimeoutReasonBare(c) == CtxErr(c)

\* "service timeout: " + ctx.Err().Error()
TimeoutReason(c) == <<"service timeout: ">> \o CtxErr(c)

TimeoutReasons == {TimeoutReason("deadline"), TimeoutReason("canceled")}

\* Faulty variant: the timeout branch forwards the zero result of the service
\* without an error.
TimeoutResultNoErr(s, c) == [service |-> s, data |-> Nil, err |-> Nil]

\* result{service: svcName, err: errors.New("service timeout: " + ...)}
TimeoutResult(s, c) == [service |-> s, data |-> Nil, err |-> TimeoutReason(c)]

VARIABLES
    query,           \* the user_id query value of the request ("" when absent)
    handler,         \* which handler serves the request
    servicesToCall,  \* the registry: the set of service names
    ctx,             \* the request-scoped context: armed, deadline, canceled
    mainPc,          \* the handler goroutine
    launched,        \* services whose goroutine the launch loop has started
    workerPc,        \* per service: the goroutine started by the launch loop
    pending,         \* per service: the result the worker holds
    fetchPc,         \* per service: the inner fetch goroutine (timeout handlers)
    innerChan,       \* per service: the buffered channel of capacity 1
    wg,              \* the WaitGroup counter
    mu,              \* the mutex: "unlocked" or the service whose worker holds it
    closerPc,        \* the goroutine that waits on wg and closes resultChan
    closed,          \* resultChan has been closed
    resultChan,      \* the buffered channel of capacity len(servicesToCall)
    ranged,          \* keys the counted receive loop has iterated over
    results,         \* the data map: a set of <<key, value>> pairs, one per key
    errors,          \* the errors slice
    response,        \* the JSON documents emitted by c.JSON, in order
    panicked,        \* a goroutine sent on the closed resultChan
    received,        \* history: per service, how many outcomes the collector got
    fetched,         \* history: per service, when and how fn returned
    calls,           \* history: per service, the arguments fn was called with
    collectedAt,     \* history: the state of ctx when the range loop ended
    branch,          \* history: per service, the case its worker's select took
    sentErr          \* history: the services of the failing outcomes, in the
                     \* order they were sent on resultChan

vars == <<query, handler, servicesToCall, ctx, mainPc, launched, workerPc, pending,
          fetchPc, innerChan, wg, mu, closerPc, closed, resultChan, ranged,
          results, errors, response, panicked, received, fetched, calls,
          collectedAt, branch, sentErr>>

\* fn has not returned yet.
NotFetched == [at |-> "none", ok |-> FALSE, resp |-> "none"]

Init ==
    /\ query \in Queries
    /\ handler \in Handlers
    /\ servicesToCall \in Registries
    /\ ctx = "armed"
    /\ mainPc = "launch"
    /\ launched = {}
    /\ workerPc = [s \in AllServices |-> "idle"]
    /\ pending = [s \in AllServices |-> NoResult]
    /\ fetchPc = [s \in AllServices |-> "idle"]
    /\ innerChan = [s \in AllServices |-> << >>]
    /\ wg = 0
    /\ mu = "unlocked"
    /\ closerPc = "idle"
    /\ closed = FALSE
    /\ resultChan = << >>
    /\ ranged = {}
    /\ results = {}
    /\ errors = << >>
    /\ response = << >>
    /\ panicked = FALSE
    /\ received = [s \in AllServices |-> 0]
    /\ fetched = [s \in AllServices |-> NotFetched]
    /\ calls = [s \in AllServices |-> << >>]
    /\ collectedAt = "none"
    /\ branch = [s \in AllServices |-> "none"]
    /\ sentErr = << >>

----
\* Helpers.

\* m[k] = v on a Go map.
MapPut(m, k, v) == {p \in m : p[1] # k} \cup {<<k, v>>}

Keys(m) == {p[1] : p \in m}

\* The service names tagged on the entries of an errors slice.
Tags(es) == {es[i][1] : i \in 1..Len(es)}

\* Faulty variant: the buffer is one slot short.
ResultCapShort ==
    IF servicesToCall = {} THEN 0 ELSE Cardinality(servicesToCall) - 1

\* cap(resultChan) == len(servicesToCall)
ResultCap == Cardinality(servicesToCall)

\* The launch loop of AggregateHandler walks a slice in order; the other
\* handlers range over a map, whose iteration order is unspecified.
NextToLaunch ==
    IF handler = "wg"
    THEN {ServiceOrder[i] : i \in
            {j \in 1..MaxServices :
                /\ ServiceOrder[j] \in servicesToCall \ launched
                /\ \A k \in 1..(j - 1) :
                      ServiceOrder[k] \notin servicesToCall \ launched}}
    ELSE servicesToCall \ launched

\* Faulty variant: the entry carries the reason without the service name.
MergeErrorsUntagged(es, res) ==
    IF res.err # Nil THEN Append(es, <<"", res.err>>) ELSE es

\* Faulty variant: the new entry is put in front.
MergeErrorsPrepend(es, res) ==
    IF res.err # Nil THEN <<<<res.service, res.err>>>> \o es ELSE es

\* The body of the if/else that merges one outcome, when it appends the
\* service name and the reason: errors = append(errors, name+": "+err)
MergeErrors(es, res) ==
    IF res.err # Nil THEN Append(es, <<res.service, res.err>>) ELSE es

\* Faulty variant: the else is missing, the map is written on failure too.
MergeResultsAlways(m, res) == MapPut(m, res.service, res.data)

\* ... else results[name] = data
MergeResults(m, res) ==
    IF res.err # Nil THEN m ELSE MapPut(m, res.service, res.data)

\* AggregateChannelHandler appends the bare service name.
ChannelMergeErrors(es, res) ==
    IF res.err # Nil THEN Append(es, <<res.service>>) ELSE es

\* results[service] (the loop variable) in one copy, results[res.service]
\* in the other.
ChannelKey(h, loopKey, res) ==
    IF h = "channel_loopvar" THEN loopKey ELSE res.service

ChannelMergeResults(h, m, loopKey, res) ==
    IF res.err # Nil THEN m ELSE MapPut(m, ChannelKey(h, loopKey, res), res.data)

\* Faulty variant: innerChan is unbuffered and its reader has gone, the send
\* can never proceed.
InnerCasesUnbuffered(h, inner, c) ==
    (IF Len(inner) < 0 THEN {"send"} ELSE {})
        \cup (IF h = "timeout" /\ c # "armed" THEN {"done"} ELSE {})

\* The cases of the inner goroutine's select that can proceed: the send on
\* innerChan (buffer of 1), and <-ctx.Done() once the context is done.  The
\* plain copy has the send alone.
InnerCases(h, inner, c) ==
    (IF Len(inner) < 1 THEN {"send"} ELSE {})
        \cup (IF h = "timeout" /\ c # "armed" THEN {"done"} ELSE {})

\* Faulty variant: the worker waits on innerChan alone.
SelectCasesResultOnly(inner, c) == IF inner # << >> THEN {"result"} ELSE {}

\* The cases of the worker's select that can proceed: the receive from
\* innerChan, and <-ctx.Done().  Go picks one of the ready cases at random.
SelectCases(inner, c) ==
    (IF inner # << >> THEN {"result"} ELSE {})
        \cup (IF c # "armed" THEN {"timeout"} ELSE {})

\* Faulty variant: the loop stops at the close and drops what is buffered.
RangeDoneOnClose(ch, isClosed) == isClosed

\* Faulty variant: the loop stops as soon as the buffer is empty.
RangeDoneWhenEmpty(ch, isClosed) == ch = << >>

\* for res := range resultChan ends when the channel is closed and drained.
RangeDone(ch, isClosed) == isClosed /\ ch = << >>

\* Faulty variant: the wait returns while one worker is still counted.
WaitDoneEarly(n) == n <= 1

\* Faulty variant: the wait returns without looking at the counter.
WaitDoneAlways(n) == TRUE

\* wg.Wait() returns when the counter is zero.
WaitDone(n) == n = 0

\* Faulty variant: only an expired deadline counts, a cancellation does not.
TimedOutDeadlineOnly(c) == c = "deadline"

\* Faulty variant: the flag is read from the request's own cancellation and
\* misses the deadline.
TimedOutCanceledOnly(c) == c = "canceled"

\* "timed_out": ctx.Err() != nil
TimedOut(c) == CtxErr(c) # Nil

\* Faulty variant: the flag is hard-coded.
SuccessAlways(es) == TRUE

\* "success": len(errors) == 0
Success(es) == Len(es) = 0

----
\* The context.

\* Faulty variant: the workers wait on a timer of their own instead of
\* ctx.Done(), a cancellation does not wake them up.
ReleasedByTimer(c) ==
    {s \in AllServices :
        workerPc[s] = "parked" /\ c = "deadline"
            /\ "timeout" \in SelectCases(<< >>, c)}

\* Faulty variant: cancel() replaces the error of a context that is done.
CancelOverwrites(c) == "canceled"

\* cancel(): the first cause sticks, cancelling a context that is done
\* changes nothing.
Cancel(c) == IF c = "armed" THEN "canceled" ELSE c

\* The workers blocked in their select that the closing of ctx.Done()
\* wakes up: each of them leaves the select through the timeout case.
Released(c) ==
    {s \in AllServices :
        workerPc[s] = "parked" /\ "timeout" \in SelectCases(<< >>, c)}

\* Faulty variant: the expiry also ends the fetchers that are running.
DeadlineExpireKillsFetch ==
    /\ handler \in TimeoutHandlers
    /\ ctx = "armed"
    /\ ctx' = "deadline"
    /\ workerPc' = [s \in AllServices |->
                        IF s \in Released("deadline") THEN "send" ELSE workerPc[s]]
    /\ pending' = [s \in AllServices |->
                        IF s \in Released("deadline") THEN TimeoutResult(s, "deadline")
                                                 ELSE pending[s]]
    /\ branch' = [s \in AllServices |->
                      IF s \in Released("deadline") THEN "timeout" ELSE branch[s]]
    /\ fetchPc' = [s \in AllServices |->
                       IF fetchPc[s] = "running" THEN "exited" ELSE fetchPc[s]]
    /\ UNCHANGED <<query, sentErr, calls, collectedAt, handler,
                   servicesToCall, mainPc, launched, innerChan, wg,
                   mu, closerPc, closed, resultChan, ranged, results, errors,
                   response, panicked, received, fetched>>

\* The 1-second timer of context.WithTimeout expires.
DeadlineExpire ==
    /\ handler \in TimeoutHandlers
    /\ ctx = "armed"
    /\ ctx' = "deadline"
    /\ workerPc' = [s \in AllServices |->
                        IF s \in Released("deadline") THEN "send" ELSE workerPc[s]]
    /\ pending' = [s \in AllServices |->
                        IF s \in Released("deadline") THEN TimeoutResult(s, "deadline")
                                                 ELSE pending[s]]
    /\ branch' = [s \in AllServices |->
                      IF s \in Released("deadline") THEN "timeout" ELSE branch[s]]
    /\ UNCHANGED <<query, sentErr, calls, collectedAt, handler,
                   servicesToCall, mainPc, launched, fetchPc, innerChan, wg,
                   mu, closerPc, closed, resultChan, ranged, results, errors,
                   response, panicked, received, fetched>>

\* The parent context c.Request.Context() is cancelled (client went away).
UpstreamCancel ==
    /\ handler \in TimeoutHandlers
    /\ ctx = "armed"
    /\ ctx' = "canceled"
    /\ workerPc' = [s \in AllServices |->
                        IF s \in Released("canceled") THEN "send" ELSE workerPc[s]]
    /\ pending' = [s \in AllServices |->
                        IF s \in Released("canceled") THEN TimeoutResult(s, "canceled")
                                                 ELSE pending[s]]
    /\ branch' = [s \in AllServices |->
                      IF s \in Released("canceled") THEN "timeout" ELSE branch[s]]
    /\ UNCHANGED <<query, sentErr, calls, collectedAt, handler,
                   servicesToCall, mainPc, launched, fetchPc, innerChan, wg,
                   mu, closerPc, closed, resultChan, ranged, results, errors,
                   response, panicked, received, fetched>>

----
\* The handler goroutine: the launch loop.

\* One iteration of the launch loop.  In the timeout handlers the worker's
\* first statements (make(chan result, 1); go func() {...}()) touch nothing
\* shared and are folded into the launch: the worker stands at its select
\* and the inner goroutine is inside fn(userID).  In the other handlers
\* the goroutine is inside fetcher(userID).
Launch(s) ==
    /\ mainPc = "launch"
    /\ ~panicked
    /\ s \in NextToLaunch
    /\ launched' = launched \cup {s}
    /\ wg' = IF handler \in ChannelHandlers THEN wg ELSE wg + 1
    /\ workerPc' = [workerPc EXCEPT ![s] =
                        IF handler \in TimeoutHandlers THEN "select" ELSE "fetch"]
    /\ fetchPc' = [fetchPc EXCEPT ![s] =
                        IF handler \in TimeoutHandlers THEN "running" ELSE @]
    /\ calls' = [calls EXCEPT ![s] = Append(@, UserID(query))]
    /\ UNCHANGED <<query, branch, sentErr, collectedAt, handler,
                   servicesToCall, ctx, mainPc, pending, innerChan, mu,
                   closerPc, closed, resultChan, ranged, results, errors,
                   response, panicked, received, fetched>>

\* Faulty variant: the closer goroutine is started from inside the launch
\* loop, so an empty registry never starts it.
LaunchDoneCloserInLoop ==
    /\ mainPc = "launch"
    /\ ~panicked
    /\ launched = servicesToCall
    /\ mainPc' = IF handler = "wg" THEN "wait" ELSE "collect"
    /\ closerPc' = IF handler \in TimeoutHandlers /\ launched # {}
                       THEN "wait" ELSE closerPc
    /\ UNCHANGED <<query, branch, sentErr, calls, collectedAt, handler,
                   servicesToCall, ctx, launched, workerPc, pending, fetchPc,
                   innerChan, wg, mu, closed, resultChan, ranged, results,
                   errors, response, panicked, received, fetched>>

\* The launch loop is over: the timeout handlers start the closer goroutine
\* and enter the range loop, the channel handlers enter the counted loop,
\* AggregateHandler calls wg.Wait().
LaunchDone ==
    /\ mainPc = "launch"
    /\ ~panicked
    /\ launched = servicesToCall
    /\ mainPc' = IF handler = "wg" THEN "wait" ELSE "collect"
    /\ closerPc' = IF handler \in TimeoutHandlers THEN "wait" ELSE closerPc
    /\ UNCHANGED <<query, branch, sentErr, calls, collectedAt, handler,
                   servicesToCall, ctx, launched, workerPc, pending, fetchPc,
                   innerChan, wg, mu, closed, resultChan, ranged, results,
                   errors, response, panicked, received, fetched>>

----
\* The goroutines of AggregateHandlerWithTimeout.

\* A send on innerChan finds the worker blocked in its select: the value is
\* handed to the worker, which leaves the select through the result case.
Handoff(s, r) ==
    workerPc[s] = "parked" /\ "result" \in SelectCases(<<r>>, ctx)

\* The inner goroutine: data, err := fn(userID) returns and the result is
\* handed over, by innerChan <- result{...} alone or as a case of a select
\* with <-ctx.Done().  Nothing shared is touched between the return and the
\* send, so the two are one step.
InnerFetch(s, d) ==
    /\ handler \in TimeoutHandlers
    /\ ~panicked
    /\ fetchPc[s] = "running"
    /\ \E case \in InnerCases(handler, innerChan[s], ctx) :
          IF case = "send" /\ Handoff(s, FetchReturn(s, d))
          THEN /\ workerPc' = [workerPc EXCEPT ![s] = "send"]
               /\ pending' = [pending EXCEPT ![s] = FetchReturn(s, d)]
               /\ branch' = [branch EXCEPT ![s] = "result"]
               /\ UNCHANGED innerChan
          ELSE /\ innerChan' = [innerChan EXCEPT ![s] =
                      IF case = "send" THEN Append(@, FetchReturn(s, d)) ELSE @]
               /\ UNCHANGED <<workerPc, pending, branch>>
    /\ fetchPc' = [fetchPc EXCEPT ![s] = "exited"]
    /\ fetched' = [fetched EXCEPT ![s] =
                        [at |-> IF ctx = "armed" THEN "armed" ELSE "fired",
                         ok |-> FetchReturn(s, d).err = Nil, resp |-> d]]
    /\ UNCHANGED <<query, sentErr, calls, collectedAt, handler,
                   servicesToCall, ctx, mainPc, launched, wg, mu, closerPc,
                   closed, resultChan, ranged, results, errors, response,
                   panicked, received>>

\* The worker reaches its select and a case can proceed: res := <-innerChan,
\* or <-ctx.Done() and the timeout result is built from ctx.Err().
WorkerSelect(s) ==
    /\ handler \in TimeoutHandlers
    /\ ~panicked
    /\ workerPc[s] = "select"
    /\ \E case \in SelectCases(innerChan[s], ctx) :
          /\ pending' = [pending EXCEPT ![s] =
                            IF case = "result" THEN Head(innerChan[s])
                                               ELSE TimeoutResult(s, ctx)]
          /\ innerChan' = [innerChan EXCEPT ![s] =
                              IF case = "result" THEN Tail(@) ELSE @]
          /\ branch' = [branch EXCEPT ![s] = case]
    /\ workerPc' = [workerPc EXCEPT ![s] = "send"]
    /\ UNCHANGED <<query, sentErr, calls, collectedAt, handler,
                   servicesToCall, ctx, mainPc, launched, fetchPc, wg, mu,
                   closerPc, closed, resultChan, ranged, results, errors,
                   response, panicked, received, fetched>>

\* The worker reaches its select and no case can proceed: it blocks until
\* innerChan gets a value or ctx.Done() is closed.
WorkerPark(s) ==
    /\ handler \in TimeoutHandlers
    /\ ~panicked
    /\ workerPc[s] = "select"
    /\ SelectCases(innerChan[s], ctx) = {}
    /\ workerPc' = [workerPc EXCEPT ![s] = "parked"]
    /\ UNCHANGED <<query, branch, sentErr, calls, collectedAt, handler,
                   servicesToCall, ctx, mainPc, launched, pending, fetchPc,
                   innerChan, wg, mu, closerPc, closed, resultChan, ranged,
                   results, errors, response, panicked, received, fetched>>

\* Faulty variant: the goroutine also stores its outcome in the shared map
\* and slice itself.
WorkerSendAndStore(s) ==
    /\ handler \in TimeoutHandlers \cup ChannelHandlers
    /\ ~panicked
    /\ workerPc[s] = "send"
    /\ closed \/ Len(resultChan) < ResultCap
    /\ panicked' = closed
    /\ resultChan' = IF closed THEN resultChan ELSE Append(resultChan, pending[s])
    /\ errors' = MergeErrors(errors, pending[s])
    /\ results' = MergeResults(results, pending[s])
    /\ pending' = [pending EXCEPT ![s] = NoResult]
    /\ sentErr' = IF ~closed /\ pending[s].err # Nil THEN Append(sentErr, s)
                                                     ELSE sentErr
    /\ workerPc' = [workerPc EXCEPT ![s] =
                        IF handler \in TimeoutHandlers THEN "done" ELSE "exited"]
    /\ UNCHANGED <<query, branch, calls, collectedAt, handler, servicesToCall,
                   ctx, mainPc, launched, fetchPc, innerChan, wg, mu,
                   closerPc, closed, ranged, response, received, fetched>>

\* resultChan <- res in a worker (timeout handlers) or in the fetch goroutine
\* (channel handlers).  A send on a closed channel panics; a send on a full
\* buffer waits.
WorkerSend(s) ==
    /\ handler \in TimeoutHandlers \cup ChannelHandlers
    /\ ~panicked
    /\ workerPc[s] = "send"
    /\ closed \/ Len(resultChan) < ResultCap
    /\ panicked' = closed
    /\ resultChan' = IF closed THEN resultChan ELSE Append(resultChan, pending[s])
    /\ pending' = [pending EXCEPT ![s] = NoResult]
    /\ sentErr' = IF ~closed /\ pending[s].err # Nil THEN Append(sentErr, s)
                                                     ELSE sentErr
    /\ workerPc' = [workerPc EXCEPT ![s] =
                        IF handler \in TimeoutHandlers THEN "done" ELSE "exited"]
    /\ UNCHANGED <<query, branch, calls, collectedAt, handler, servicesToCall,
                   ctx, mainPc, launched, fetchPc, innerChan, wg, mu,
                   closerPc, closed, ranged, results, errors, response,
                   received, fetched>>

\* defer wg.Done() runs and the worker exits.
WorkerDone(s) ==
    /\ handler \in TimeoutHandlers \cup {"wg"}
    /\ ~panicked
    /\ workerPc[s] = "done"
    /\ wg' = wg - 1
    /\ workerPc' = [workerPc EXCEPT ![s] = "exited"]
    /\ UNCHANGED <<query, branch, sentErr, calls, collectedAt, handler,
                   servicesToCall, ctx, mainPc, launched, pending, fetchPc,
                   innerChan, mu, closerPc, closed, resultChan, ranged,
                   results, errors, response, panicked, received, fetched>>

\* Faulty variant: the closer closes the channel without waiting for the
\* workers.
CloserCloseNoWait ==
    /\ handler \in TimeoutHandlers
    /\ ~panicked
    /\ closerPc = "wait"
    /\ closed' = TRUE
    /\ closerPc' = "exited"
    /\ UNCHANGED <<query, branch, sentErr, calls, collectedAt, handler,
                   servicesToCall, ctx, mainPc, launched, workerPc, pending,
                   fetchPc, innerChan, wg, mu, resultChan, ranged, results,
                   errors, response, panicked, received, fetched>>

\* The closer goroutine: wg.Wait() returns, close(resultChan).
CloserClose ==
    /\ handler \in TimeoutHandlers
    /\ ~panicked
    /\ closerPc = "wait"
    /\ WaitDone(wg)
    /\ closed' = TRUE
    /\ closerPc' = "exited"
    /\ UNCHANGED <<query, branch, sentErr, calls, collectedAt, handler,
                   servicesToCall, ctx, mainPc, launched, workerPc, pending,
                   fetchPc, innerChan, wg, mu, resultChan, ranged, results,
                   errors, response, panicked, received, fetched>>

\* One iteration of for res := range resultChan.
CollectRecv ==
    /\ handler \in TimeoutHandlers
    /\ ~panicked
    /\ mainPc = "collect"
    /\ resultChan # << >>
    /\ LET res == Head(resultChan) IN
          /\ errors' = MergeErrors(errors, res)
          /\ results' = MergeResults(results, res)
          /\ received' = [received EXCEPT ![res.service] = @ + 1]
    /\ resultChan' = Tail(resultChan)
    /\ UNCHANGED <<query, branch, sentErr, calls, collectedAt, handler,
                   servicesToCall, ctx, mainPc, launched, workerPc, pending,
                   fetchPc, innerChan, wg, mu, closerPc, closed, ranged,
                   response, panicked, fetched>>

\* The range loop ends.
CollectExit ==
    /\ handler \in TimeoutHandlers
    /\ ~panicked
    /\ mainPc = "collect"
    /\ RangeDone(resultChan, closed)
    /\ mainPc' = "respond"
    /\ collectedAt' = ctx
    /\ UNCHANGED <<query, branch, sentErr, calls, handler, servicesToCall,
                   ctx, launched, workerPc, pending, fetchPc, innerChan, wg,
                   mu, closerPc, closed, resultChan, ranged, results, errors,
                   response, panicked, received, fetched>>

----
\* The goroutines of AggregateChannelHandler and AggregateHandler.

\* data, err := fn(userId) returns inside the worker itself.
WorkerFetchReturn(s, d) ==
    /\ handler \in ChannelHandlers \cup {"wg"}
    /\ ~panicked
    /\ workerPc[s] = "fetch"
    /\ pending' = [pending EXCEPT ![s] = FetchReturn(s, d)]
    /\ workerPc' = [workerPc EXCEPT ![s] = IF handler = "wg" THEN "lock" ELSE "send"]
    /\ fetched' = [fetched EXCEPT ![s] =
                        [at |-> "armed", ok |-> FetchReturn(s, d).err = Nil, resp |-> d]]
    /\ UNCHANGED <<query, branch, sentErr, calls, collectedAt, handler,
                   servicesToCall, ctx, mainPc, launched, fetchPc, innerChan,
                   wg, mu, closerPc, closed, resultChan, ranged, results,
                   errors, response, panicked, received>>

\* One iteration of the counted loop of AggregateChannelHandler: the loop
\* takes the next key of the map (any key not yet visited) and blocks on
\* res := <-resultChan.
ChannelRecv(k) ==
    /\ handler \in ChannelHandlers
    /\ ~panicked
    /\ mainPc = "collect"
    /\ k \in servicesToCall \ ranged
    /\ resultChan # << >>
    /\ LET res == Head(resultChan) IN
          /\ errors' = ChannelMergeErrors(errors, res)
          /\ results' = ChannelMergeResults(handler, results, k, res)
          /\ received' = [received EXCEPT ![res.service] = @ + 1]
    /\ resultChan' = Tail(resultChan)
    /\ ranged' = ranged \cup {k}
    /\ UNCHANGED <<query, branch, sentErr, calls, collectedAt, handler,
                   servicesToCall, ctx, mainPc, launched, workerPc, pending,
                   fetchPc, innerChan, wg, mu, closerPc, closed, response,
                   panicked, fetched>>

\* Faulty variant: the loop is left after its first iteration.
ChannelLoopExitAfterFirst ==
    /\ handler \in ChannelHandlers
    /\ ~panicked
    /\ mainPc = "collect"
    /\ ranged = servicesToCall \/ ranged # {}
    /\ mainPc' = "respond"
    /\ UNCHANGED <<query, branch, sentErr, calls, collectedAt, handler,
                   servicesToCall, ctx, launched, workerPc, pending, fetchPc,
                   innerChan, wg, mu, closerPc, closed, resultChan, ranged,
                   results, errors, response, panicked, received, fetched>>

\* The counted loop has visited every key.
ChannelLoopExit ==
    /\ handler \in ChannelHandlers
    /\ ~panicked
    /\ mainPc = "collect"
    /\ ranged = servicesToCall
    /\ mainPc' = "respond"
    /\ UNCHANGED <<query, branch, sentErr, calls, collectedAt, handler,
                   servicesToCall, ctx, launched, workerPc, pending, fetchPc,
                   innerChan, wg, mu, closerPc, closed, resultChan, ranged,
                   results, errors, response, panicked, received, fetched>>

\* Faulty variant: the worker enters the critical section without waiting
\* for the mutex.
WorkerLockNoWait(s) ==
    /\ handler = "wg"
    /\ ~panicked
    /\ workerPc[s] = "lock"
    /\ mu' = s
    /\ workerPc' = [workerPc EXCEPT ![s] = "write"]
    /\ UNCHANGED <<query, branch, sentErr, calls, collectedAt, handler,
                   servicesToCall, ctx, mainPc, launched, pending, fetchPc,
                   innerChan, wg, closerPc, closed, resultChan, ranged,
                   results, errors, response, panicked, received, fetched>>

\* mu.Lock()
WorkerLock(s) ==
    /\ handler = "wg"
    /\ ~panicked
    /\ workerPc[s] = "lock"
    /\ mu = "unlocked"
    /\ mu' = s
    /\ workerPc' = [workerPc EXCEPT ![s] = "write"]
    /\ UNCHANGED <<query, branch, sentErr, calls, collectedAt, handler,
                   servicesToCall, ctx, mainPc, launched, pending, fetchPc,
                   innerChan, wg, closerPc, closed, resultChan, ranged,
                   results, errors, response, panicked, received, fetched>>

\* if err != nil { errors = append(...) } else { results[name] = data }
WorkerWrite(s) ==
    /\ handler = "wg"
    /\ ~panicked
    /\ workerPc[s] = "write"
    /\ errors' = MergeErrors(errors, pending[s])
    /\ results' = MergeResults(results, pending[s])
    /\ pending' = [pending EXCEPT ![s] = NoResult]
    /\ workerPc' = [workerPc EXCEPT ![s] = "unlock"]
    /\ UNCHANGED <<query, branch, sentErr, calls, collectedAt, handler,
                   servicesToCall, ctx, mainPc, launched, fetchPc, innerChan,
                   wg, mu, closerPc, closed, resultChan, ranged, response,
                   panicked, received, fetched>>

\* mu.Unlock()
WorkerUnlock(s) ==
    /\ handler = "wg"
    /\ ~panicked
    /\ workerPc[s] = "unlock"
    /\ mu' = "unlocked"
    /\ workerPc' = [workerPc EXCEPT ![s] = "done"]
    /\ UNCHANGED <<query, branch, sentErr, calls, collectedAt, handler,
                   servicesToCall, ctx, mainPc, launched, pending, fetchPc,
                   innerChan, wg, closerPc, closed, resultChan, ranged,
                   results, errors, response, panicked, received, fetched>>

\* wg.Wait() returns in the handler goroutine of AggregateHandler.
WaitReturn ==
    /\ handler = "wg"
    /\ ~panicked
    /\ mainPc = "wait"
    /\ WaitDone(wg)
    /\ mainPc' = "respond"
    /\ UNCHANGED <<query, branch, sentErr, calls, collectedAt, handler,
                   servicesToCall, ctx, launched, workerPc, pending, fetchPc,
                   innerChan, wg, mu, closerPc, closed, resultChan, ranged,
                   results, errors, response, panicked, received, fetched>>

----
\* The response.

\* Faulty variant: the status reflects the failures.
StatusFromErrors(es) == IF es = << >> THEN 200 ELSE 502

\* The first argument of c.JSON(200, ...): the same whatever was collected.
Status(es) == 200

\* Faulty variant: timed_out is derived from the collected outcomes, true
\* when one of them is a timeout entry.
DocumentTimedOutFromErrors(h, m, es, c) ==
    CASE h = "wg" ->
            [status |-> Status(es), success |-> Success(es), data |-> m, errors |-> es,
             concurrency |-> "waitgroup"]
      [] h \in ChannelHandlers ->
            [status |-> Status(es), data |-> m, errors |-> es, concurrency |-> "channels"]
      [] h \in TimeoutHandlers ->
            [status |-> Status(es), data |-> m, errors |-> es,
             concurrency |-> "context_with_timeout",
             timed_out |-> \E i \in 1..Len(es) : es[i][2] \in TimeoutReasons]

\* The gin.H document each handler passes to c.JSON(200, ...); duration_ms
\* is a clock reading and is left out.
Document(h, m, es, c) ==
    CASE h = "wg" ->
            [status |-> Status(es), success |-> Success(es), data |-> m, errors |-> es,
             concurrency |-> "waitgroup"]
      [] h \in ChannelHandlers ->
            [status |-> Status(es), data |-> m, errors |-> es, concurrency |-> "channels"]
      [] h \in TimeoutHandlers ->
            [status |-> Status(es), data |-> m, errors |-> es,
             concurrency |-> "context_with_timeout", timed_out |-> TimedOut(c)]

\* Faulty variant: the document is written from inside the range loop,
\* before the loop has ended.
RespondInLoop ==
    /\ mainPc = "collect"
    /\ ~panicked
    /\ response = << >>
    /\ response' = Append(response, Document(handler, results, errors, ctx))
    /\ UNCHANGED <<query, branch, sentErr, calls, collectedAt, handler,
                   servicesToCall, ctx, mainPc, launched, workerPc, pending,
                   fetchPc, innerChan, wg, mu, closerPc, closed, resultChan,
                   ranged, results, errors, panicked, received, fetched>>

\* c.JSON(200, gin.H{...})
Respond ==
    /\ mainPc = "respond"
    /\ ~panicked
    /\ response' = Append(response, Document(handler, results, errors, ctx))
    /\ mainPc' = "responded"
    /\ UNCHANGED <<query, branch, sentErr, calls, collectedAt, handler,
                   servicesToCall, ctx, launched, workerPc, pending, fetchPc,
                   innerChan, wg, mu, closerPc, closed, resultChan, ranged,
                   results, errors, panicked, received, fetched>>

\* The handler returns; in the timeout handlers the deferred cancel() runs,
\* which cancels the context unless it is done already.
MainReturn ==
    /\ mainPc = "responded"
    /\ ~panicked
    /\ mainPc' = "returned"
    /\ ctx' = IF handler \in TimeoutHandlers THEN Cancel(ctx) ELSE ctx
    /\ UNCHANGED <<query, branch, sentErr, calls, collectedAt, handler,
                   servicesToCall, launched, workerPc, pending, fetchPc,
                   innerChan, wg, mu, closerPc, closed, resultChan, ranged,
                   results, errors, response, panicked, received, fetched>>

----
Next ==
    \/ DeadlineExpire
    \/ UpstreamCancel
    \/ \E s \in AllServices : Launch(s)
    \/ LaunchDone
    \/ \E s \in AllServices, d \in Responses : InnerFetch(s, d)
    \/ \E s \in AllServices : WorkerSelect(s)
    \/ \E s \in AllServices : WorkerPark(s)
    \/ \E s \in AllServices : WorkerSend(s)
    \/ \E s \in AllServices : WorkerDone(s)
    \/ CloserClose
    \/ CollectRecv
    \/ CollectExit
    \/ \E s \in AllServices, d \in Responses : WorkerFetchReturn(s, d)
    \/ \E k \in AllServices : ChannelRecv(k)
    \/ ChannelLoopExit
    \/ \E s \in AllServices : WorkerLock(s)
    \/ \E s \in AllServices : WorkerWrite(s)
    \/ \E s \in AllServices : WorkerUnlock(s)
    \/ WaitReturn
    \/ Respond
    \/ MainReturn

Spec == Init /\ [][Next]_vars

\* The Go scheduler runs every runnable goroutine eventually and the timer
\* of context.WithTimeout expires if the context is still armed.  Nothing
\* makes a fetcher return and nothing makes the client go away.
Fairness ==
    /\ WF_vars(DeadlineExpire)
    /\ \A s \in AllServices : WF_vars(Launch(s))
    /\ WF_vars(LaunchDone)
    /\ \A s \in AllServices : WF_vars(WorkerSelect(s))
    /\ \A s \in AllServices : WF_vars(WorkerPark(s))
    /\ \A s \in AllServices : WF_vars(WorkerSend(s))
    /\ \A s \in AllServices : WF_vars(WorkerDone(s))
    /\ WF_vars(CloserClose)
    /\ WF_vars(CollectRecv)
    /\ WF_vars(CollectExit)
    /\ \A k \in AllServices : WF_vars(ChannelRecv(k))
    /\ WF_vars(ChannelLoopExit)
    /\ \A s \in AllServices : WF_vars(WorkerLock(s))
    /\ \A s \in AllServices : WF_vars(WorkerWrite(s))
    /\ \A s \in AllServices : WF_vars(WorkerUnlock(s))
    /\ WF_vars(WaitReturn)
    /\ WF_vars(Respond)
    /\ WF_vars(MainReturn)

FairSpec == Init /\ [][Next]_vars /\ Fairness

----
\* Properties.

\* The document the handler emitted.
Emitted == response # << >>

Doc == response[1]

\* What the fetcher of a service returned, from the record of its call.
Returned(s) == FetchReturn(s, fetched[s].resp)

C2_EventuallyResponds == (handler \in TimeoutHandlers) ~> Emitted

C2_Witness ==
    /\ handler \in TimeoutHandlers
    /\ Emitted
    /\ servicesToCall = AllServices
    /\ \A s \in servicesToCall : fetchPc[s] = "running"

\* C3: a result that reached innerChan while the context was armed is the
\* outcome the worker forwards, never a timeout outcome.
C3_CompletedFetchWins ==
    \A s \in AllServices :
        (handler \in TimeoutHandlers /\ fetched[s].at = "armed" /\ workerPc[s] = "send")
            => pending[s].err \notin TimeoutReasons

\* C4: a service whose fetcher returned after the context fired is reported
\* as a timeout failure in errors and has no entry in data.
C4_LateFetchIsTimeout ==
    \A s \in AllServices :
        (handler \in TimeoutHandlers /\ fetched[s].at = "fired" /\ Emitted)
            => /\ s \notin Keys(Doc.data)
               /\ \E i \in 1..Len(Doc.errors) :
                     Doc.errors[i][1] = s /\ Doc.errors[i][2] \in TimeoutReasons

\* The step in which the worker of s leaves its select.
SelectStep(s) == workerPc[s] = "select" /\ workerPc'[s] = "send"

\* C5 as stated: once the context has fired, every select evaluated
\* afterwards takes the ctx.Done branch and yields a timeout outcome.
C5_FiredSelectIsTimeout ==
    [][\A s \in AllServices :
          (SelectStep(s) /\ ctx # "armed") => pending'[s].err \in TimeoutReasons]_vars

\* C5 amended: once the context has fired, every select evaluated afterwards
\* with no result waiting on innerChan takes the ctx.Done branch and yields
\* the timeout outcome of its service.
C5_FiredSelectEmptyInnerIsTimeout ==
    [][\A s \in AllServices :
          (SelectStep(s) /\ ctx # "armed" /\ innerChan[s] = << >>)
              => /\ pending'[s].service = s
                 /\ pending'[s].data = Nil
                 /\ pending'[s].err \in TimeoutReasons]_vars

C5_Witness ==
    \E s \in AllServices :
        /\ handler \in TimeoutHandlers
        /\ workerPc[s] = "send"
        /\ fetchPc[s] = "running"
        /\ pending[s].err \in TimeoutReasons

\* C6: in the response of AggregateHandler and of
\* AggregateHandlerWithTimeout every registry service is either a key of
\* data or the tag of an errors entry, never both, never neither.
C6_DataXorErrors ==
    (handler \in TimeoutHandlers \cup {"wg"} /\ Emitted) =>
        /\ Keys(Doc.data) \cap Tags(Doc.errors) = {}
        /\ Keys(Doc.data) \cup Tags(Doc.errors) = servicesToCall
        /\ Cardinality(Doc.data) + Len(Doc.errors) = Cardinality(servicesToCall)

C6_Witness ==
    /\ handler = "wg"
    /\ Emitted
    /\ servicesToCall = AllServices
    /\ Doc.data # {}
    /\ Doc.errors # << >>

\* C7: in the response of AggregateChannelHandler every payload in data is
\* stored under the name of the service whose fetcher produced it.
C7_PayloadUnderOwnName ==
    (handler \in ChannelHandlers /\ Emitted) =>
        \A p \in Doc.data : p[2] = Returned(p[1]).data

\* C8: in the response of AggregateChannelHandler no service name is both a
\* key of data and an entry of errors.
C8_ChannelDataErrorsDisjoint ==
    (handler \in ChannelHandlers /\ Emitted) =>
        Keys(Doc.data) \cap Tags(Doc.errors) = {}

\* The step in which the handler emits its document.
RespondStep == response = << >> /\ response' # << >>

\* C9: timed_out in the response of AggregateHandlerWithTimeout is true
\* exactly when the context has fired at the moment the document is built.
C9_TimedOutIffFired ==
    [][(handler \in TimeoutHandlers /\ RespondStep)
          => (response'[1].timed_out <=> ctx # "armed")]_vars

C9_Witness ==
    /\ handler \in TimeoutHandlers
    /\ Emitted
    /\ servicesToCall = AllServices
    /\ Doc.errors = << >>
    /\ Doc.timed_out

\* Every fetcher of the registry returned a payload while the context was
\* armed.
AllSucceededArmed ==
    \A s \in servicesToCall : fetched[s].at = "armed" /\ fetched[s].ok

\* C10 as stated: when every fetcher succeeds before the context fires, the
\* response of AggregateHandlerWithTimeout has the registry as the key set
\* of data, no errors, and timed_out false.
C10_AllSucceedBeforeDeadline ==
    (handler \in TimeoutHandlers /\ Emitted /\ servicesToCall # {} /\ AllSucceededArmed) =>
        /\ Keys(Doc.data) = servicesToCall
        /\ Doc.errors = << >>
        /\ ~Doc.timed_out

\* C10 amended: when every fetcher succeeds and the context has not fired
\* when the document is built, the response has the registry as the key set
\* of data, no errors, and timed_out false.
C10_AllSucceedNotFiredAtResponse ==
    [][(handler \in TimeoutHandlers /\ RespondStep /\ AllSucceededArmed /\ ctx = "armed")
          => /\ Keys(response'[1].data) = servicesToCall
             /\ Cardinality(response'[1].data) = Cardinality(servicesToCall)
             /\ response'[1].errors = << >>
             /\ ~response'[1].timed_out]_vars

C10_Witness ==
    /\ handler \in TimeoutHandlers
    /\ Emitted
    /\ servicesToCall = AllServices
    /\ AllSucceededArmed
    /\ Keys(Doc.data) = AllServices
    /\ Doc.errors = << >>
    /\ ~Doc.timed_out

----
\* The services whose fetcher has returned a payload, and those whose
\* fetcher has returned an error.
Succeeded == {s \in servicesToCall : fetched[s].at # "none" /\ fetched[s].ok}

Failed == {s \in servicesToCall : fetched[s].at # "none" /\ ~fetched[s].ok}

\* C11: when every fetcher returns, K of them with an error and the others
\* with a payload, the response of AggregateHandler, and the response of
\* AggregateHandlerWithTimeout whenever the context had not fired when the
\* range loop ended, has the N-K succeeding services in data and exactly K
\* entries in errors, each tagged with a failing service and carrying the
\* fetcher's own error.
C11_PartialSuccess ==
    (Emitted /\ (handler = "wg" \/ (handler \in TimeoutHandlers /\ collectedAt = "armed")))
        => /\ Succeeded \cup Failed = servicesToCall
           /\ Keys(Doc.data) = Succeeded
           /\ Cardinality(Doc.data) = Cardinality(Succeeded)
           /\ Doc.data = {<<s, Returned(s).data>> : s \in Succeeded}
           /\ Len(Doc.errors) = Cardinality(Failed)
           /\ Tags(Doc.errors) = Failed
           /\ \A i \in 1..Len(Doc.errors) :
                 Doc.errors[i][2] = FetchReturn(Doc.errors[i][1], "failed").err

\* One fetcher failed, one succeeded, the range loop ended before the
\* deadline and the deadline expired before the document was built.
C11_Witness ==
    /\ Emitted
    /\ handler \in TimeoutHandlers
    /\ collectedAt = "armed"
    /\ Doc.timed_out
    /\ Cardinality(Failed) = 1
    /\ Cardinality(Succeeded) = 1

\* C12: with an empty registry AggregateHandlerWithTimeout and
\* AggregateChannelHandler always get to their response: the closer closes
\* the zero-capacity resultChan at once, the loops run zero times, data is
\* the empty map and errors the empty list; a response built while the
\* context is armed has timed_out false.
C12_EmptyRegistryResponds ==
    /\ (servicesToCall = {} /\ handler \in TimeoutHandlers \cup ChannelHandlers)
           ~> (/\ Emitted
               /\ Doc.data = {}
               /\ Doc.errors = << >>
               /\ ranged = {}
               /\ \A s \in AllServices : received[s] = 0)
    /\ [][(RespondStep /\ servicesToCall = {}
               /\ handler \in TimeoutHandlers /\ ctx = "armed")
              => (ResultCap = 0 /\ closed /\ response'[1].timed_out = FALSE)]_vars

\* The timeout handler has answered an empty registry before the deadline.
C12_Witness ==
    /\ Emitted
    /\ servicesToCall = {}
    /\ handler \in TimeoutHandlers
    /\ closerPc = "exited"
    /\ Doc.data = {}
    /\ Doc.errors = << >>
    /\ Doc.timed_out = FALSE

\* C13: once AggregateHandlerWithTimeout has emitted its response, no step
\* of any goroutine changes data or errors or the emitted document; nothing
\* is sent to or received from resultChan any more, and a fetch result that
\* arrives afterwards is dropped or stays unread on its innerChan.
C13_ResponseIsFinal ==
    [][(handler \in TimeoutHandlers /\ Emitted)
          => /\ results' = results
             /\ errors' = errors
             /\ response' = response
             /\ Doc.data = results /\ Doc.errors = errors
             /\ resultChan' = resultChan
             /\ \A s \in AllServices :
                   \/ innerChan'[s] = innerChan[s]
                   \/ /\ innerChan[s] = << >>
                      /\ \E d \in Responses : innerChan'[s] = <<FetchReturn(s, d)>>]_vars

\* The handler has returned; a service it reported as timed out has its
\* late fetch result sitting unread on innerChan.
C13_Witness ==
    /\ handler \in TimeoutHandlers
    /\ mainPc = "returned"
    /\ \E s \in servicesToCall :
          /\ fetched[s].at = "fired"
          /\ fetchPc[s] = "exited"
          /\ innerChan[s] # << >>
          /\ s \notin Keys(Doc.data)
          /\ s \in Tags(Doc.errors)

\* C14: no goroutine blocks for ever on a channel.  In the timeout handlers
\* an inner goroutine whose fetcher returns can always finish at once,
\* whether or not its worker still reads innerChan, and every worker that
\* stands at its send on resultChan gets past it; in AggregateChannelHandler
\* every fetch goroutine that stands at its send gets past it.  No send
\* hits a closed channel.
C14_NoSendBlocksForever ==
    /\ [](\A s \in AllServices, d \in Responses :
             (handler \in TimeoutHandlers /\ fetchPc[s] = "running")
                 => ENABLED InnerFetch(s, d))
    /\ \A s \in AllServices :
          (handler \in TimeoutHandlers \cup ChannelHandlers /\ workerPc[s] = "send")
              ~> (workerPc[s] \in {"done", "exited"} /\ ~panicked)
    /\ [](~panicked)

\* Every worker of the plain copy took the timeout branch and has exited;
\* every inner goroutine has finished all the same, its result left on the
\* abandoned innerChan.
C14_Witness ==
    /\ handler = "timeout_plain"
    /\ servicesToCall = AllServices
    /\ \A s \in servicesToCall :
          /\ workerPc[s] = "exited"
          /\ fetchPc[s] = "exited"
          /\ fetched[s].at = "fired"
          /\ innerChan[s] # << >>

\* C15: when the request's own context is cancelled before the budget has
\* elapsed and before AggregateHandlerWithTimeout has answered, every worker
\* blocked in its select leaves it with the timeout failure of its service,
\* and the handler goes on to collect one outcome per registered service and
\* to answer with timed_out true.
C15_UpstreamCancelFiresDeadline ==
    /\ [][(handler \in TimeoutHandlers /\ ctx = "armed" /\ ctx' = "canceled"
              /\ ~Emitted)
             => \A s \in AllServices :
                   workerPc[s] = "parked"
                       => /\ workerPc'[s] = "send"
                          /\ pending'[s] = [service |-> s, data |-> Nil,
                                            err |-> TimeoutReason("canceled")]]_vars
    /\ (handler \in TimeoutHandlers /\ ctx = "canceled" /\ ~Emitted)
           ~> (/\ handler \in TimeoutHandlers
               /\ Emitted
               /\ Doc.timed_out
               /\ \A s \in servicesToCall : received[s] = 1
               /\ Keys(Doc.data) \cup Tags(Doc.errors) = servicesToCall)

\* The client went away while a worker was waiting; the response reports
\* that worker's service with the cancellation as the reason.
C15_Witness ==
    /\ handler \in TimeoutHandlers
    /\ mainPc = "responded"
    /\ ctx = "canceled"
    /\ Doc.timed_out
    /\ \E i \in 1..Len(Doc.errors) :
          /\ Doc.errors[i][2] = TimeoutReason("canceled")
          /\ fetched[Doc.errors[i][1]].at = "none"

\* C16: in every handler each registered fetcher is called exactly once per
\* request, also after a failure or a timeout, no other fetcher is called,
\* and every call gets the same argument: the user_id query value, or "123"
\* when that value is empty.
C16_EachFetcherOnceSameSubject ==
    /\ \A s \in AllServices :
          /\ Len(calls[s]) = (IF s \in launched THEN 1 ELSE 0)
          /\ \A i \in 1..Len(calls[s]) :
                calls[s][i] = (IF query = "" THEN "123" ELSE query)
    /\ launched \subseteq servicesToCall
    /\ mainPc # "launch" => launched = servicesToCall

\* A request without user_id has been served to the end; one fetcher failed,
\* and every fetcher was called once with "123".
C16_Witness ==
    /\ mainPc = "returned"
    /\ query = ""
    /\ servicesToCall = AllServices
    /\ \E s \in servicesToCall : fetched[s].at # "none" /\ ~fetched[s].ok
    /\ \A s \in servicesToCall : calls[s] = <<"123">>

\* The workers of AggregateHandler between mu.Lock() and mu.Unlock().
InCritical == {s \in AllServices : workerPc[s] \in {"write", "unlock"}}

\* C17: in AggregateHandler at most one worker is inside the critical
\* section and it is the holder of the mutex; every step that changes
\* results or errors is taken by the holder of the mutex and inserts exactly
\* one entry, and the holder releases the mutex after that one insertion.
C17_WritesUnderMutex ==
    /\ [](handler = "wg"
            => /\ Cardinality(InCritical) <= 1
               /\ \A s \in AllServices : s \in InCritical <=> mu = s)
    /\ [][(handler = "wg" /\ (results' # results \/ errors' # errors))
             => \E s \in AllServices :
                   /\ mu = s /\ mu' = s
                   /\ workerPc[s] = "write" /\ workerPc'[s] = "unlock"
                   /\ Cardinality(results') + Len(errors')
                         = Cardinality(results) + Len(errors) + 1]_vars
    /\ [][(handler = "wg" /\ mu # "unlocked" /\ mu' # mu)
             => (mu' = "unlocked" /\ workerPc[mu] = "unlock")]_vars

\* One worker is inside the critical section while another waits at
\* mu.Lock().
C17_Witness ==
    /\ handler = "wg"
    /\ \E s, u \in servicesToCall :
          /\ s # u
          /\ mu = s
          /\ workerPc[s] = "write"
          /\ workerPc[u] = "lock"

\* C18: in AggregateHandler, once wg.Wait() has returned (and so when the
\* response is built and ever after) every one of the N workers has written
\* its outcome, released the mutex and called Done: no worker is before or
\* inside its critical section.
C18_ResponseAfterAllWorkers ==
    (handler = "wg" /\ mainPc \in {"respond", "responded", "returned"})
        => /\ launched = servicesToCall
           /\ \A s \in servicesToCall :
                 /\ workerPc[s] = "exited"
                 /\ s \in Keys(results) \cup Tags(errors)
           /\ Cardinality(results) + Len(errors) = Cardinality(servicesToCall)
           /\ mu = "unlocked"
           /\ wg = 0

\* wg.Wait() has just returned for a full registry.
C18_Witness ==
    /\ handler = "wg"
    /\ mainPc = "respond"
    /\ servicesToCall = AllServices
    /\ Cardinality(results) + Len(errors) = MaxServices

\* C19: AggregateHandler and AggregateChannelHandler answer only after
\* every registered fetcher has returned: as long as one fetcher has not
\* returned there is no response, whatever the other fetchers have done.
C19_NoResponseWhileFetcherRuns ==
    (handler \in ChannelHandlers \cup {"wg"}
        /\ \E s \in servicesToCall : fetched[s].at = "none")
        => (~Emitted /\ mainPc \in {"launch", "wait", "collect"})

\* Every fetcher but one has returned and its goroutine has finished; the
\* handler is still waiting.
C19_Witness ==
    /\ handler \in ChannelHandlers \cup {"wg"}
    /\ mainPc \in {"wait", "collect"}
    /\ ~Emitted
    /\ \E s \in servicesToCall :
          /\ fetched[s].at = "none"
          /\ servicesToCall # {s}
          /\ \A u \in servicesToCall \ {s} :
                /\ workerPc[u] = "exited"
                /\ (u \in Keys(results) \cup Tags(errors) \/ received[u] = 1)

\* C20: in the response of AggregateHandler success is true exactly when
\* errors is empty; when some fetchers succeeded and some failed the
\* response has success false, every succeeding service's payload in data
\* and one entry per failing service in errors.
C20_SuccessIffNoErrors ==
    (handler = "wg" /\ Emitted)
        => /\ Doc.success <=> Doc.errors = << >>
           /\ Doc.success <=> Failed = {}
           /\ Doc.data = {<<s, Returned(s).data>> : s \in Succeeded}
           /\ Tags(Doc.errors) = Failed
           /\ Len(Doc.errors) = Cardinality(Failed)

\* A partial success: one payload, one error, success false.
C20_Witness ==
    /\ handler = "wg"
    /\ Emitted
    /\ Doc.success = FALSE
    /\ Cardinality(Doc.data) = 1
    /\ Len(Doc.errors) = 1

\* An outcome carries the timeout reason of the context as it is now.
IsTimeoutOutcome(r) ==
    /\ r.data = Nil
    /\ ctx # "armed"
    /\ r.err = <<"service timeout: ">> \o CtxErr(ctx)

\* C21: in AggregateHandlerWithTimeout the outcome a worker forwards, and
\* the errors entry made from it, has the reason "service timeout: <ctx
\* error>" exactly when the worker left its select through ctx.Done(); an
\* outcome taken from innerChan carries what the fetcher returned, and as an
\* errors entry the fetcher's own error.
C21_TimeoutReasonIffDeadlineBranch ==
    handler \in TimeoutHandlers
        => /\ \A s \in AllServices :
                 workerPc[s] = "send"
                     => /\ branch[s] \in {"timeout", "result"}
                        /\ branch[s] = "timeout" <=> IsTimeoutOutcome(pending[s])
                        /\ branch[s] = "result"
                              => \E d \in Responses : pending[s] = FetchReturn(s, d)
           /\ \A i \in 1..Len(errors) :
                 /\ branch[errors[i][1]] \in {"timeout", "result"}
                 /\ branch[errors[i][1]] = "timeout"
                       <=> errors[i][2][1] = "service timeout: "
                 /\ branch[errors[i][1]] = "timeout"
                       => errors[i][2] = <<"service timeout: ">> \o CtxErr(ctx)
                 /\ branch[errors[i][1]] = "result"
                       => errors[i][2] = FetchReturn(errors[i][1], "failed").err
           /\ Emitted => Doc.errors = errors

\* The response lists one service as timed out and one as failed by its
\* fetcher.
C21_Witness ==
    /\ handler \in TimeoutHandlers
    /\ Emitted
    /\ \E i, j \in 1..Len(Doc.errors) :
          /\ branch[Doc.errors[i][1]] = "timeout"
          /\ Doc.errors[i][2] = <<"service timeout: ", "context deadline exceeded">>
          /\ branch[Doc.errors[j][1]] = "result"
          /\ Doc.errors[j][2] = <<"downstream failure">>

\* C22: in the response of AggregateChannelHandler every errors entry is a
\* pair: the name of a service whose fetcher failed, and the error that
\* fetcher returned.
C22_ChannelErrorsCarryReason ==
    (handler \in ChannelHandlers /\ Emitted)
        => \A i \in 1..Len(Doc.errors) :
              /\ Len(Doc.errors[i]) = 2
              /\ Doc.errors[i][1] \in Failed
              /\ Doc.errors[i][2] = FetchReturn(Doc.errors[i][1], "failed").err

\* C23: the context of one request fires at most once and stays fired: once
\* it is done, by the timer or by a cancellation, no later step changes it,
\* and whatever looks at it afterwards (ctx.Err() for timed_out and for the
\* timeout reason, <-ctx.Done() in the select of a worker or of an inner
\* goroutine) finds it done; no worker stays blocked in its select.
C23_ContextFiresOnce ==
    /\ [][ctx # "armed" => ctx' = ctx]_vars
    /\ [](ctx # "armed"
            => /\ CtxErr(ctx) # Nil
               /\ TimedOut(ctx)
               /\ \A s \in AllServices :
                     /\ "timeout" \in SelectCases(innerChan[s], ctx)
                     /\ "done" \in InnerCases("timeout", innerChan[s], ctx)
                     /\ workerPc[s] # "parked")

\* The deadline expired and the handler has answered and returned: the
\* deferred cancel() has run on a context that was done already.
C23_Witness ==
    /\ handler \in TimeoutHandlers
    /\ mainPc = "returned"
    /\ ctx = "deadline"
    /\ Doc.timed_out

\* The services whose outcome, as forwarded to the collector, is a failure.
FailedOutcome ==
    IF handler \in TimeoutHandlers
    THEN {s \in servicesToCall :
            \/ branch[s] = "timeout"
            \/ branch[s] = "result" /\ s \in Failed}
    ELSE Failed

\* C24: every handler answers with status 200 whatever was collected, also
\* when every service failed or timed out; every failing outcome is an entry
\* of errors and every value in data is a payload.
C24_StatusAlways200 ==
    Emitted
        => /\ Doc.status = 200
           /\ Tags(Doc.errors) = FailedOutcome
           /\ Len(Doc.errors) = Cardinality(FailedOutcome)
           /\ \A p \in Doc.data :
                 \E s \in servicesToCall :
                    /\ fetched[s].at # "none" /\ fetched[s].ok
                    /\ p[2] = Returned(s).data

\* Every service of a full registry failed or timed out.
C24_Witness ==
    /\ Emitted
    /\ servicesToCall = AllServices
    /\ Doc.status = 200
    /\ Doc.data = {}
    /\ Len(Doc.errors) = MaxServices

\* How many outcomes of service s are buffered in resultChan.
Buffered(s) ==
    Cardinality({i \in 1..Len(resultChan) : resultChan[i].service = s})

\* C25: in AggregateHandlerWithTimeout resultChan is closed once, by the
\* closer, and when it is closed every one of the N workers has made its
\* single send and called wg.Done; no worker ever sends on the closed
\* channel.
C25_CloseAfterAllSends ==
    /\ [](handler \in TimeoutHandlers /\ closed
            => /\ closerPc = "exited"
               /\ wg = 0
               /\ launched = servicesToCall
               /\ \A s \in servicesToCall :
                     /\ workerPc[s] = "exited"
                     /\ branch[s] # "none"
                     /\ Buffered(s) + received[s] = 1)
    /\ [](~panicked)
    /\ [][closed' # closed
             => (~closed /\ closerPc = "wait" /\ closerPc' = "exited")]_vars
    /\ [][closerPc = "exited" => closerPc' = "exited"]_vars

\* resultChan has been closed with the outcomes of a full registry still
\* buffered.
C25_Witness ==
    /\ handler \in TimeoutHandlers
    /\ closed
    /\ servicesToCall = AllServices
    /\ Len(resultChan) = MaxServices
    /\ mainPc = "collect"

\* The step in which the fetcher of s returns and its goroutine finishes.
InnerFetchStep(s) == fetchPc[s] = "running" /\ fetchPc'[s] = "exited"

\* C26: in the select-based copy of AggregateHandlerWithTimeout, a fetcher
\* that returns when the context is already done leaves innerChan as it was:
\* its goroutine does not send the result.
C26_NoInnerSendAfterCancel ==
    [][\A s \in AllServices :
          (handler = "timeout" /\ ctx # "armed" /\ InnerFetchStep(s))
              => innerChan'[s] = innerChan[s]]_vars

\* C27: in AggregateHandlerWithTimeout and AggregateChannelHandler
\* resultChan has capacity N and never holds more than N outcomes, an
\* innerChan never holds more than one, and a goroutine that stands at a
\* send finds a free slot: the send on resultChan and the inner goroutine's
\* send on innerChan can proceed at once.
C27_BuffersNeverFull ==
    handler \in TimeoutHandlers \cup ChannelHandlers
        => /\ Len(resultChan) <= Cardinality(servicesToCall)
           /\ \A s \in AllServices :
                 /\ Len(innerChan[s]) <= 1
                 /\ workerPc[s] = "send"
                       => (~closed /\ ENABLED WorkerSend(s))
                 /\ fetchPc[s] = "running"
                       => /\ innerChan[s] = << >>
                          /\ "send" \in InnerCases(handler, innerChan[s], ctx)

\* One worker has sent, the other has its fetch result waiting on innerChan.
C27_Witness ==
    /\ handler \in TimeoutHandlers
    /\ ~closed
    /\ Len(resultChan) = MaxServices - 1
    /\ \E s \in servicesToCall :
          Len(innerChan[s]) = 1 /\ workerPc[s] = "select"

\* C28: in AggregateChannelHandler and AggregateHandlerWithTimeout the data
\* map and the errors slice are written only by the handler goroutine, in a
\* step of its receive loop that takes the head of resultChan, and read only
\* by the handler goroutine when it builds the document; a step of a worker
\* or of a fetch goroutine changes channels and its own state, never data,
\* errors or the document.
C28_OnlyCollectorTouchesDataErrors ==
    /\ [][(handler \in TimeoutHandlers \cup ChannelHandlers
              /\ (results' # results \/ errors' # errors))
             => /\ mainPc = "collect" /\ mainPc' = "collect"
                /\ resultChan # << >> /\ resultChan' = Tail(resultChan)
                /\ workerPc' = workerPc /\ fetchPc' = fetchPc
                /\ pending' = pending /\ innerChan' = innerChan
                /\ closerPc' = closerPc]_vars
    /\ [][(handler \in TimeoutHandlers \cup ChannelHandlers
              /\ response' # response)
             => /\ mainPc = "respond"
                /\ response' = <<Document(handler, results, errors, ctx)>>
                /\ workerPc' = workerPc /\ fetchPc' = fetchPc
                /\ closerPc' = closerPc]_vars

\* The collector has merged one outcome while another goroutine is still
\* at work.
C28_Witness ==
    /\ handler \in TimeoutHandlers \cup ChannelHandlers
    /\ mainPc = "collect"
    /\ Cardinality(results) + Len(errors) = 1
    /\ \E s \in servicesToCall :
          workerPc[s] \in {"fetch", "select", "parked", "send"}

\* if res.err != nil
IsFailure(r) == r.err # Nil

\* The service names of the entries of an errors slice, in order.
ErrorNames(es) == [i \in 1..Len(es) |-> es[i][1]]

\* The service names of the outcomes buffered in a channel, in order.
OutcomeNames(ch) == [i \in 1..Len(ch) |-> ch[i].service]

\* C29: AggregateHandlerWithTimeout merges outcomes in the order they were
\* sent on resultChan: at every moment the entries of errors, followed by
\* the failing outcomes still buffered, name the services in the order their
\* failing outcomes were sent, and so do the errors of the response.  (The
\* order itself is not fixed by the registry: see the witness.)
C29_ErrorsInArrivalOrder ==
    handler \in TimeoutHandlers
        => /\ ErrorNames(errors) \o OutcomeNames(SelectSeq(resultChan, IsFailure))
                 = sentErr
           /\ Emitted => ErrorNames(Doc.errors) = sentErr

\* With the registry {user, orders} the response lists orders before user.
C29_Witness ==
    /\ handler \in TimeoutHandlers
    /\ Emitted
    /\ Len(Doc.errors) = 2
    /\ ErrorNames(Doc.errors) = <<ServiceOrder[2], ServiceOrder[1]>>
    /\ sentErr = <<ServiceOrder[2], ServiceOrder[1]>>

\* With the same registry the response lists user before orders.
C29_OtherOrder ==
    /\ handler \in TimeoutHandlers
    /\ Emitted
    /\ Len(Doc.errors) = 2
    /\ ErrorNames(Doc.errors) = <<ServiceOrder[1], ServiceOrder[2]>>

\* C30: in AggregateHandlerWithTimeout the firing of the context leaves
\* every fetch as it is: a fetcher that is running keeps running, leaves
\* that state only by returning on its own, and can still return, with a
\* payload or an error, however long after the firing or the response.
C30_FiringLeavesFetchAlone ==
    /\ [][(handler \in TimeoutHandlers /\ ctx = "armed" /\ ctx' # "armed")
             => /\ fetchPc' = fetchPc
                /\ fetched' = fetched
                /\ calls' = calls
                /\ innerChan' = innerChan]_vars
    /\ [][\A s \in AllServices :
             (handler \in TimeoutHandlers /\ fetchPc[s] = "running"
                 /\ fetchPc'[s] # "running")
                 => /\ fetchPc'[s] = "exited"
                    /\ fetched[s].at = "none" /\ fetched'[s].at # "none"
                    /\ ctx' = ctx]_vars
    /\ [](\A s \in AllServices, d \in Responses :
             (handler \in TimeoutHandlers /\ fetchPc[s] = "running" /\ ~panicked)
                 => ENABLED InnerFetch(s, d))

\* The deadline expired, the handler has answered and returned, and a
\* fetcher is still running.
C30_Witness ==
    /\ handler \in TimeoutHandlers
    /\ mainPc = "returned"
    /\ ctx = "deadline"
    /\ \E s \in servicesToCall :
          /\ fetchPc[s] = "running"
          /\ calls[s] = <<UserID(query)>>
          /\ s \in Tags(Doc.errors)

\* An errors entry made from a worker's timeout outcome.
IsTimeoutEntry(e) == e[2] \in TimeoutReasons

\* C31: in AggregateHandlerWithTimeout a response whose errors holds at
\* least one timeout entry has timed_out true.
C31_TimeoutEntryImpliesTimedOut ==
    (handler \in TimeoutHandlers /\ Emitted
        /\ \E i \in 1..Len(Doc.errors) : IsTimeoutEntry(Doc.errors[i]))
        => Doc.timed_out = TRUE

\* A response with a timeout entry of the expired deadline beside a payload.
C31_Witness ==
    /\ handler \in TimeoutHandlers
    /\ Emitted
    /\ \E i \in 1..Len(Doc.errors) :
          /\ IsTimeoutEntry(Doc.errors[i])
          /\ Doc.errors[i][2] = TimeoutReason("deadline")
    /\ Doc.data # {}
    /\ Doc.timed_out = TRUE

\* C32: in AggregateHandlerWithTimeout timed_out is read from the context
\* when the document is built and not from the collected outcomes: when all
\* N outcomes collected are payloads and the context fires after the range
\* loop has ended and before the document is built, the response has the N
\* payloads, errors empty and timed_out true.
C32_TimedOutAfterCleanCollection ==
    [][(handler \in TimeoutHandlers /\ RespondStep
           /\ Keys(results) = servicesToCall /\ errors = << >>
           /\ collectedAt = "armed" /\ ctx # "armed")
          => /\ Keys(response'[1].data) = servicesToCall
             /\ response'[1].errors = << >>
             /\ response'[1].timed_out = TRUE]_vars

\* Every service of the full registry was collected as a payload while the
\* context was armed, the deadline expired before the document was built,
\* and the response has no errors and timed_out true.
C32_Witness ==
    /\ handler \in TimeoutHandlers
    /\ Emitted
    /\ servicesToCall = AllServices
    /\ collectedAt = "armed"
    /\ ctx = "deadline"
    /\ Keys(Doc.data) = AllServices
    /\ Doc.errors = << >>
    /\ Doc.timed_out = TRUE

C34_Non2xxIsFailure ==
    \A s \in servicesToCall :
        fetched[s].resp = "non2xx"
            => /\ Returned(s).err # Nil
               /\ (handler = "wg" /\ Emitted)
                     => (s \in Tags(Doc.errors) /\ s \notin Keys(Doc.data))

====
